---- MODULE Spec2Model ----
(***************************************************************************)
(* A model of the browser client of dnl-strnl/imagine:                     *)
(*   static/js/app.js                  ProgressTracker, ImageGenerator     *)
(*   static/js/components/*.js         SettingsPanel, ImagePreviewModal    *)
(* The page runs on one event loop: every action below is one task of that *)
(* loop (an event handler up to its first await, the continuation of an    *)
(* await, a timer callback, a FileReader callback, an animation frame).    *)
(***************************************************************************)
EXTENDS Integers, Sequences, FiniteSets, TLC

(***************************************************************************)
(* Bounds of the model.                                                    *)
(***************************************************************************)
\* user-initiated events (submits, input changes, uploads, clicks, keys)
MaxUserEvents == 2
\* images carried by one successful /generate response
MaxImages == 2
\* records in the server-rendered saved_images array
MaxSaved == 2

(***************************************************************************)
(* JavaScript values.  A value is a record: t is its type tag, v the       *)
(* integer part and f the hundredths of a number, s the text of a string.  *)
(***************************************************************************)
Frac(n, h) == [t |-> "num", v |-> n, f |-> h, s |-> ""]
Num(n) == Frac(n, 0)
NaN == [t |-> "nan", v |-> 0, f |-> 0, s |-> ""]
Str(x) == [t |-> "str", v |-> 0, f |-> 0, s |-> x]
Undefined == [t |-> "undef", v |-> 0, f |-> 0, s |-> ""]
Null == [t |-> "null", v |-> 0, f |-> 0, s |-> ""]

\* ToBoolean: NaN, 0, '', undefined and null are falsy
Truthy(x) ==
    \/ x.t = "num" /\ (x.v # 0 \/ x.f # 0)
    \/ x.t = "str" /\ x.s # ""

\* the expression  x || d
OrElse(x, d) == IF Truthy(x) THEN x ELSE d

IsInteger(x) == x.t = "num" /\ x.f = 0

(***************************************************************************)
(* Texts typed into inputs are sequences of characters.                    *)
(***************************************************************************)
DigitChars == {"0", "1", "2", "3", "4", "5", "6", "7", "8", "9"}

DigitVal(c) ==
    CASE c = "0" -> 0 [] c = "1" -> 1 [] c = "2" -> 2 [] c = "3" -> 3
      [] c = "4" -> 4 [] c = "5" -> 5 [] c = "6" -> 6 [] c = "7" -> 7
      [] c = "8" -> 8 [] c = "9" -> 9

WhiteSpace == {" "}

RECURSIVE SkipSpace(_, _)
SkipSpace(s, i) ==
    IF i <= Len(s) /\ s[i] \in WhiteSpace THEN SkipSpace(s, i + 1) ELSE i

\* the run of decimal digits of s that starts at position i
RECURSIVE ReadDigits(_, _, _, _)
ReadDigits(s, i, acc, n) ==
    IF i <= Len(s) /\ s[i] \in DigitChars
    THEN ReadDigits(s, i + 1, acc * 10 + DigitVal(s[i]), n + 1)
    ELSE [val |-> acc, cnt |-> n, next |-> i]

\* parseInt(string): leading white space, a sign, then the longest run of
\* digits; NaN when there is no digit
ParseIntText(s) ==
    LET i0 == SkipSpace(s, 1)
        signed == i0 <= Len(s) /\ s[i0] \in {"-", "+"}
        neg == i0 <= Len(s) /\ s[i0] = "-"
        d == ReadDigits(s, IF signed THEN i0 + 1 ELSE i0, 0, 0)
    IN  IF d.cnt = 0 THEN NaN ELSE Num(IF neg THEN 0 - d.val ELSE d.val)

\* parseFloat(string): as parseInt, with an optional fraction (kept to
\* hundredths); ".5" is 0.5
ParseFloatText(s) ==
    LET i0 == SkipSpace(s, 1)
        signed == i0 <= Len(s) /\ s[i0] \in {"-", "+"}
        neg == i0 <= Len(s) /\ s[i0] = "-"
        d == ReadDigits(s, IF signed THEN i0 + 1 ELSE i0, 0, 0)
        dot == d.next <= Len(s) /\ s[d.next] = "."
        fr == IF dot THEN ReadDigits(s, d.next + 1, 0, 0)
                     ELSE [val |-> 0, cnt |-> 0, next |-> d.next]
        hundredths == CASE fr.cnt = 0 -> 0
                        [] fr.cnt = 1 -> fr.val * 10
                        [] fr.cnt = 2 -> fr.val
                        [] OTHER -> ReadDigits(s, d.next + 1, 0, 0).val \div 10
        sign == IF neg THEN 0 - 1 ELSE 1
    IN  IF d.cnt = 0 /\ fr.cnt = 0 THEN NaN
        ELSE Frac(sign * d.val, sign * hundredths)

\* parseInt(number), as handleSettingsChange applies it to what the panel
\* hands over (a number or NaN): the number is converted to a string first,
\* so the fraction is dropped and NaN stays NaN
ParseIntValue(x) ==
    CASE x.t = "num" -> Num(x.v)
      [] OTHER -> NaN

\* parseFloat(number)
ParseFloatValue(x) ==
    CASE x.t = "num" -> x
      [] OTHER -> NaN

\* String.prototype.trim
RECURSIVE TrimLeft(_)
TrimLeft(s) ==
    IF s # << >> /\ Head(s) \in WhiteSpace THEN TrimLeft(Tail(s)) ELSE s

RECURSIVE TrimRight(_)
TrimRight(s) ==
    IF s # << >> /\ s[Len(s)] \in WhiteSpace
    THEN TrimRight(SubSeq(s, 1, Len(s) - 1)) ELSE s

Trim(s) == TrimRight(TrimLeft(s))

\* Math.max(1, Math.min(4, x)) on an integer
ClampBatch(n) == IF n < 1 THEN 1 ELSE IF n > 4 THEN 4 ELSE n

\* merging objects:  { ...a, ...b }
Merge(a, b) ==
    [k \in DOMAIN a \cup DOMAIN b |-> IF k \in DOMAIN b THEN b[k] ELSE a[k]]

(***************************************************************************)
(* Constants of app.js.                                                    *)
(***************************************************************************)
DEFAULT_SETTINGS ==
    [ batchSize |-> Num(1),
      seed |-> Str(""),
      guidanceScale |-> Num(5),
      num_inference_steps |-> Num(50),
      negativePrompt |-> Str(""),
      height |-> Num(1024),
      width |-> Num(1024) ]


\* the /model-info response's model name
ServerModel == Str("stable-diffusion-v1-5")

(***************************************************************************)
(* State.                                                                  *)
(***************************************************************************)
VARIABLES
    phase,            \* "booting" until initializeApp has run; then "ready",
                      \* or "failed" when fetchModelInfo threw
    isGenerating,     \* state.isGenerating
    generatedImages,  \* state.generatedImages
    sourceImage,      \* state.sourceImage: Null or Str(filename)
    settings,         \* state.settings: key -> value
    model,            \* state.model
    btnDisabled,      \* generateBtn.disabled
    btnText,          \* generateBtn.textContent
    tracker,          \* the ProgressTracker and its DOM elements
    hideTimers,       \* pending setTimeout(..., 1000) of stop(): request ids
    addTimers,        \* pending setTimeout(..., 1200) of handleGenerate
    sent,             \* every /generate request body issued, in order
    genInFlight,      \* ids (positions in sent) of requests not yet answered
    imageGrid,        \* the thumbnails of #imageGrid, in DOM order (urls)
    alerts,           \* the messages of the alert() calls, in order
    panel,            \* the SettingsPanel's React state
    preview,          \* the mounted ImagePreviewModal, if any
    uploads,          \* files of the /upload requests not yet answered
    reads,            \* files a FileReader is still reading
    dropHasImage,     \* dropZone.classList.contains('has-image')
    previewHtml,      \* sourceImagePreview.innerHTML: Null or the file shown
    fileInputValue,   \* fileInput.value: Null ('') or the chosen file
    loadingShown,     \* loadingIndicator.style.display = 'block'
    consoleLog,       \* the console.debug and console.error lines, in order
    settled,          \* how each answered /generate request ended (and how
                      \* many images the answer carried), in order
    uploadLog,        \* how each answered /upload request ended, in order
    events,           \* number of user events so far
    lastEvent         \* the last user event handled

genVars == <<isGenerating, btnDisabled, btnText, tracker, hideTimers,
             addTimers, sent, genInFlight>>
galleryVars == <<generatedImages, imageGrid>>
settingsVars == <<settings, model, panel>>
uploadVars == <<sourceImage, uploads, reads, dropHasImage, previewHtml,
                fileInputValue, loadingShown>>
logVars == <<consoleLog, settled, uploadLog>>
vars == <<phase, genVars, galleryVars, settingsVars, uploadVars, alerts,
          logVars, preview, events, lastEvent>>

(***************************************************************************)
(* ProgressTracker (app.js 18-106).  display is what the bar shows:        *)
(* "reset" (0%), "estimate" (the capped estimate) or "complete" (100%);    *)
(* percent is the number written into the percentage text.                 *)
(***************************************************************************)
TrackerNew ==
    [ isRunning |-> FALSE, estimatedDuration |-> Num(30),
      shown |-> FALSE, display |-> "reset", percent |-> Num(0),
      frame |-> FALSE ]

\* lines 92-99: Math.round(Math.min(elapsed / estimatedDuration, 0.99) * 100)
\* for an elapsed time in milliseconds and an estimate in whole seconds.
\* 0 / 0 is NaN and Math.min keeps it; x / 0 is Infinity and is capped; a
\* negative estimate gives a quotient below zero, which the cap leaves alone
ProgressPercent(elapsedMs, estimatedDuration) ==
    LET est == estimatedDuration.v
    IN  CASE estimatedDuration.t # "num" -> NaN
          [] est = 0 -> IF elapsedMs = 0 THEN NaN ELSE Num(99)
          [] est > 0 ->
               IF elapsedMs * 100 >= 99 * 1000 * est THEN Num(99)
               ELSE Num((2 * elapsedMs + 10 * est) \div (20 * est))
          [] est < 0 ->
               Num(0 - ((2 * elapsedMs + 10 * (0 - est) - 1)
                            \div (20 * (0 - est))))

TrackerUpdateProgress(tr, elapsedMs) ==
    IF ~tr.isRunning THEN tr
    ELSE [tr EXCEPT !.display = "estimate", !.frame = TRUE,
                    !.percent = ProgressPercent(elapsedMs,
                                                tr.estimatedDuration)]

\* start(): updateProgress runs in the same task, elapsedMs after startTime
TrackerStart(tr, estimatedDuration, elapsedMs) ==
    IF tr.isRunning THEN tr
    ELSE TrackerUpdateProgress(
             [tr EXCEPT !.estimatedDuration = estimatedDuration,
                        !.isRunning = TRUE, !.shown = TRUE],
             elapsedMs)

TrackerReset(tr) == [tr EXCEPT !.display = "reset", !.percent = Num(0)]

\* a stop() that completes the bar and leaves the running flag set
TrackerStopStaysRunning(tr) ==
    IF ~tr.isRunning THEN tr
    ELSE [tr EXCEPT !.frame = FALSE, !.display = "complete",
                    !.percent = Num(100)]

\* stop() up to its setTimeout; TrackerStopSchedules tells whether it set one
TrackerStop(tr) ==
    IF ~tr.isRunning THEN tr
    ELSE [tr EXCEPT !.isRunning = FALSE, !.frame = FALSE,
                    !.display = "complete", !.percent = Num(100)]

TrackerStopSchedules(tr) == tr.isRunning

\* the callback of stop()'s setTimeout
TrackerHide(tr) == TrackerReset([tr EXCEPT !.shown = FALSE])

\* a cancel() that clears the flag and leaves the bar as it is
TrackerCancelKeepsBar(tr) ==
    IF ~tr.isRunning THEN tr
    ELSE [tr EXCEPT !.isRunning = FALSE, !.frame = FALSE]

TrackerCancel(tr) ==
    IF ~tr.isRunning THEN tr
    ELSE TrackerReset([tr EXCEPT !.isRunning = FALSE, !.frame = FALSE,
                                 !.shown = FALSE])

(***************************************************************************)
(* ImageGenerator: pure parts of the handlers.                             *)
(***************************************************************************)
getBatchSizeFromDOM(text) ==
    IF text # << >> THEN ParseIntText(text) ELSE DEFAULT_SETTINGS.batchSize

getSeedFromDOM(text) ==
    IF text # << >> THEN ParseIntText(text) ELSE DEFAULT_SETTINGS.seed

InitialSettings(batchText, seedText) ==
    Merge(DEFAULT_SETTINGS,
          [ batchSize |-> getBatchSizeFromDOM(batchText),
            seed |-> getSeedFromDOM(seedText) ])

\* Math.round(8 * (steps / 50) * Math.sqrt(batchSize)) on integers: the n
\* with (2n-1)*50 <= 16*steps*sqrt(batchSize) < (2n+1)*50, compared in squares
RoundedWait(steps, batch) ==
    LET Reaches(n) == ((2 * n - 1) * 50) * ((2 * n - 1) * 50)
                          <= 256 * steps * steps * batch
        cand == {n \in 1 .. (steps * batch + 1) : Reaches(n)}
    IN  IF cand = {} THEN 0
        ELSE CHOOSE n \in cand : \A m \in cand : m <= n

calculateEstimatedWait(batchSize, numInferenceSteps) ==
    IF ~IsInteger(batchSize) \/ ~IsInteger(numInferenceSteps) THEN NaN
    ELSE IF batchSize.v < 0 THEN NaN
    ELSE IF numInferenceSteps.v < 0
         THEN Num(0 - RoundedWait(0 - numInferenceSteps.v, batchSize.v))
         ELSE Num(RoundedWait(numInferenceSteps.v, batchSize.v))

\* the fallback of handleSettingsChange for guidanceScale: 7.5
GuidanceFallback == Frac(7, 50)

\* a settings change that starts again from the defaults
handleSettingsChangeFromDefaults(old, newSettings) ==
    Merge(DEFAULT_SETTINGS, newSettings)

handleSettingsChange(old, newSettings) ==
    LET parsed ==
          [k \in DOMAIN newSettings |->
              CASE k = "width" ->
                     OrElse(ParseIntValue(newSettings[k]), Num(1024))
                [] k = "height" ->
                     OrElse(ParseIntValue(newSettings[k]), Num(1024))
                [] k = "num_inference_steps" ->
                     OrElse(ParseIntValue(newSettings[k]), Num(50))
                [] k = "guidanceScale" ->
                     OrElse(ParseFloatValue(newSettings[k]), GuidanceFallback)
                [] OTHER -> newSettings[k]]
    IN  Merge(old, parsed)

\* a settings change that never writes state.model
ModelAfterChangeIgnored(oldModel, newSettings) == oldModel

\* state.model after handleSettingsChange(newSettings)
ModelAfterChange(oldModel, newSettings) ==
    IF "model" \in DOMAIN newSettings /\ newSettings["model"].t # "undef"
    THEN newSettings["model"] ELSE oldModel

\* the batch input's change listener: the value it stores
BatchInputValue(text) ==
    LET parsed == OrElse(ParseIntText(text), Num(1))
    IN  Num(ClampBatch(parsed.v))

\* the seed input's change listener: the value it stores
SeedInputValue(text) == OrElse(ParseIntText(text), Str(""))


\* JSON.stringify of a field: NaN is written as null (undefined is left out)
Json(x) == IF x.t = "nan" THEN Null ELSE x

\* the body of the /generate request (app.js 338-349); a field that is
\* Undefined is absent from the JSON text
RequestBody(prompt, st, mdl, src) ==
    [ prompt |-> prompt,
      batch_size |-> Json(st.batchSize),
      seed |-> Json(OrElse(st.seed, Undefined)),
      guidance_scale |-> Json(st.guidanceScale),
      num_inference_steps |-> Json(st.num_inference_steps),
      negative_prompt |-> Json(st.negativePrompt),
      model |-> Json(mdl),
      height |-> Json(st.height),
      width |-> Json(st.width),
      image |-> src ]

\* a handleGenerate without its isGenerating guard
GenerateNeverRejects(generating) == FALSE

\* line 310: whether handleGenerate returns at once
GenerateRejects(generating) == generating

\* a validation that forgets trim()
PromptRejectedUntrimmed(text) == text = << >>

\* lines 315-316: whether the prompt fails validation
PromptRejected(text) == Trim(text) = << >>

\* the images of a successful response to request r: n records, url by url
ResponseImages(r, n) == [k \in 1 .. n |-> [url |-> [req |-> r, k |-> k]]]

\* the server-rendered saved_images array: records without a settings snapshot
NoSettings == [k \in {} |-> Undefined]
SavedImages(n) ==
    [k \in 1 .. n |-> [url |-> [req |-> 0, k |-> k], model |-> ServerModel,
                       settings |-> NoSettings]]

\* lines 381-385: { ...image, model: this.state.model, settings: {...} }
WithMetadata(image, mdl, st) ==
    [url |-> image.url, model |-> mdl, settings |-> st]

\* an add that stores nothing
addGeneratedImagesDropped(gallery, images, mdl, st) == gallery

\* an add that starts the sequence afresh from the response's images
addGeneratedImagesAfresh(gallery, images, mdl, st) ==
    [k \in 1 .. Len(images) |-> WithMetadata(images[k], mdl, st)]

\* lines 380-389: state.generatedImages after the forEach
addGeneratedImages(gallery, images, mdl, st) ==
    gallery \o [k \in 1 .. Len(images) |-> WithMetadata(images[k], mdl, st)]

\* line 391: imageGrid.insertBefore(fragment, imageGrid.firstChild)
GridInsertFirst(grid, images) ==
    [k \in 1 .. Len(images) |-> images[k].url] \o grid

\* line 491: imageGrid.appendChild(fragment)
GridAppend(grid, images) ==
    grid \o [k \in 1 .. Len(images) |-> images[k].url]

\* the reset written at the end of the try block instead of in finally
GenerateResetInTry(outcome) ==
    IF outcome = "success"
    THEN [isGenerating |-> FALSE, disabled |-> FALSE, text |-> "Generate"]
    ELSE [isGenerating |-> TRUE, disabled |-> TRUE, text |-> "Generating..."]

\* lines 371-373: the finally block of handleGenerate
GenerateFinally(outcome) ==
    [isGenerating |-> FALSE, disabled |-> FALSE, text |-> "Generate"]

\* line 355 / the rejected fetch: the text of the Error that is caught
GenerateError(outcome) ==
    CASE outcome = "rejected-with-text" -> "out of memory"
      [] outcome = "rejected" -> "Generation failed"
      [] OTHER -> "Failed to fetch"

(***************************************************************************)
(* SettingsPanel.                                                          *)
(***************************************************************************)
PanelInit(initialSettings) ==
    [ guidanceScale |-> OrElse(initialSettings.guidanceScale, Num(5)),
      num_inference_steps |->
          OrElse(initialSettings.num_inference_steps, Num(50)),
      negativePrompt |-> OrElse(initialSettings.negativePrompt, Str("")),
      model |-> OrElse(initialSettings.model, Str("")),
      width |-> OrElse(initialSettings.width, Num(1024)),
      height |-> OrElse(initialSettings.height, Num(1024)) ]

\* the onChange of each input: what it hands to handleSettingChange
PanelParse(key, text) ==
    CASE key = "guidanceScale" -> ParseFloatText(text)
      [] key \in {"width", "height", "num_inference_steps"} ->
             ParseIntText(text)

\* handleSettingChange(key, value): { ...settings, [key]: value }
PanelSet(p, key, value) == [p EXCEPT ![key] = value]

(***************************************************************************)
(* ImagePreviewModal.  index is the 0-based currentIndex.                  *)
(***************************************************************************)
\* a previous-image step that stops at the first image
NavLeftNoWrap(prev, length) == IF prev > 0 THEN prev - 1 ELSE 0

NavLeft(prev, length) == IF prev > 0 THEN prev - 1 ELSE length - 1

\* a next-image step that runs past the last image
NavRightNoWrap(prev, length) == prev + 1

NavRight(prev, length) == IF prev < length - 1 THEN prev + 1 ELSE 0

\* images[index] is an image (neither undefined nor out of range)
HasImageAt(images, index) == index >= 0 /\ index < Len(images)

\* a click listener that opens the first entry whatever the thumbnail's url
FindIndexNoLookup(images, url) == 0

\* createImageElement's click listener: findIndex by url, -1 when absent
FindIndexByUrl(images, url) ==
    IF \E i \in 1 .. Len(images) : images[i].url = url
    THEN (CHOOSE i \in 1 .. Len(images) :
              /\ images[i].url = url
              /\ \A j \in 1 .. (i - 1) : images[j].url # url) - 1
    ELSE 0 - 1


(***************************************************************************)
(* Inputs.                                                                 *)
(***************************************************************************)
\* what the batch and seed inputs hold when the page loads: the template's
\* values "4" and "0", or texts the browser restored into the two number
\* inputs (the batch input takes up to 8, either takes the empty text, and
\* ".5" is a number the seed input accepts)
LoadInputs ==
    { [batch |-> <<"4">>, seed |-> <<"0">>],
      [batch |-> <<"8">>, seed |-> <<"4", "2">>],
      [batch |-> << >>, seed |-> <<".", "5">>] }

\* what the user types into the batch and seed inputs
BatchTexts == { << >>, <<"0">>, <<"3">>, <<"9">> }
SeedTexts == { << >>, <<"7">> }

\* the prompt input when a submit arrives
Prompts == { << >>, <<" ">>, <<"f", "o", "x">> }

\* what the user types into the panel's numeric inputs
PanelTexts(key) ==
    CASE key = "width" -> { << >>, <<"5", "1", "2">> }
      [] key = "height" -> { << >>, <<"7", "6", "8">> }
      [] key = "num_inference_steps" -> { << >>, <<"2", "0">>, <<"1">> }
      [] key = "guidanceScale" -> { << >>, <<"7", ".", "2", "5">> }

PanelNumericKeys == {"width", "height", "num_inference_steps", "guidanceScale"}

\* what the user types into the panel's text inputs
PanelStrings(key) ==
    CASE key = "negativePrompt" -> {"blurry"}
      [] key = "model" -> {"sdxl"}

PanelTextKeys == {"negativePrompt", "model"}

Files == {"cat.png", "dog.png"}

\* how a request ends: a body with success true, a body with success false
\* (without or with an error text), or fetch() or response.json() throwing
GenerateOutcomes == {"success", "rejected", "rejected-with-text", "threw"}

UploadOutcomes == {"success", "rejected", "rejected-with-text", "threw"}

\* milliseconds between  this.startTime = Date.now()  and the Date.now() of
\* the updateProgress that start() calls: the same task, so 0 or 1
StartElapsed == {0, 1}

\* milliseconds since the start when an animation frame runs: the first
\* frame, and a frame long after the estimate has passed
FrameElapsed == {16, 600000}

(***************************************************************************)
(* The state after  new ImageGenerator()  (app.js 109-125): initializeApp  *)
(* is waiting for /model-info and no listener is attached yet.             *)
(***************************************************************************)
Init ==
    /\ phase = "booting"
    /\ isGenerating = FALSE
    /\ generatedImages = << >>
    /\ sourceImage = Null
    /\ \E loaded \in LoadInputs :
           settings = InitialSettings(loaded.batch, loaded.seed)
    /\ model = Undefined
    /\ btnDisabled = FALSE
    /\ btnText = "Generate"
    /\ tracker = TrackerNew
    /\ hideTimers = << >>
    /\ addTimers = << >>
    /\ sent = << >>
    /\ genInFlight = {}
    /\ imageGrid = << >>
    /\ alerts = << >>
    /\ consoleLog = << >>
    /\ settled = << >>
    /\ uploadLog = << >>
    /\ panel = [k \in {} |-> Undefined]
    /\ preview = [open |-> FALSE, index |-> 0]
    /\ uploads = << >>
    /\ reads = {}
    /\ dropHasImage = FALSE
    /\ previewHtml = Null
    /\ fileInputValue = Null
    /\ loadingShown = FALSE
    /\ events = 0
    /\ lastEvent = [name |-> "none", arg |-> << >>]

(***************************************************************************)
(* initializeApp (app.js 172-177) once /model-info has answered:           *)
(* fetchModelInfo, initializeSettingsPanel, setupEventListeners,           *)
(* loadSavedImages.  When the fetch fails the rejection leaves the app     *)
(* without listeners.                                                      *)
(***************************************************************************)
ModelInfoArrives ==
    /\ phase = "booting"
    /\ \E nSaved \in {0, MaxSaved} :
         LET st == Merge(settings, [model |-> ServerModel])
             saved == SavedImages(nSaved)
         IN  /\ model' = ServerModel
             /\ settings' = st
             /\ panel' = PanelInit(Merge(st, [model |-> ServerModel]))
             /\ generatedImages' = saved
             /\ imageGrid' = GridAppend(imageGrid, saved)
    /\ phase' = "ready"
    /\ UNCHANGED <<genVars, uploadVars, alerts, logVars, preview, events, lastEvent>>

ModelInfoFails ==
    /\ phase = "booting"
    /\ phase' = "failed"
    /\ UNCHANGED <<genVars, galleryVars, settingsVars, uploadVars, alerts, logVars,
                   preview, events, lastEvent>>

\* a user event is handled only once the listeners are attached
UserEvent(name, arg) ==
    /\ phase = "ready"
    /\ events < MaxUserEvents
    /\ events' = events + 1
    /\ lastEvent' = [name |-> name, arg |-> arg]

(***************************************************************************)
(* handleGenerate (app.js 309-375), up to  await fetch(...)                *)
(***************************************************************************)
handleGenerate(text, elapsedMs) ==
    IF GenerateRejects(isGenerating)
    THEN /\ consoleLog' = Append(consoleLog, "debug: Generation in progress...")
         /\ UNCHANGED <<genVars, alerts>>
    ELSE IF PromptRejected(text)
    THEN /\ alerts' = Append(alerts, "Please enter a prompt!")
         /\ UNCHANGED <<genVars, consoleLog>>
    ELSE /\ isGenerating' = TRUE
         /\ btnDisabled' = TRUE
         /\ btnText' = "Generating..."
         /\ tracker' = TrackerStart(tracker,
                calculateEstimatedWait(settings.batchSize,
                                       settings.num_inference_steps),
                elapsedMs)
         /\ sent' = Append(sent,
                RequestBody(Trim(text), settings, model, sourceImage))
         /\ genInFlight' = genInFlight \cup {Len(sent) + 1}
         /\ UNCHANGED <<hideTimers, addTimers, alerts, consoleLog>>

\* a click on the Generate button (a disabled button gets no click)
GenerateClick ==
    \E text \in Prompts, elapsedMs \in StartElapsed :
        /\ ~preview.open
        /\ ~btnDisabled
        /\ UserEvent("submit", text)
        /\ handleGenerate(text, elapsedMs)
        /\ UNCHANGED <<phase, galleryVars, settingsVars, uploadVars, preview,
                       settled, uploadLog>>

\* Enter (without Shift) in the prompt input
PromptEnter ==
    \E text \in Prompts, elapsedMs \in StartElapsed :
        /\ UserEvent("submit", text)
        /\ handleGenerate(text, elapsedMs)
        /\ UNCHANGED <<phase, galleryVars, settingsVars, uploadVars, preview,
                       settled, uploadLog>>

(***************************************************************************)
(* handleGenerate after the awaits: the response of request r has been     *)
(* read (or the fetch or response.json() has thrown).                      *)
(***************************************************************************)
GenerateSettles ==
    \E r \in genInFlight, outcome \in GenerateOutcomes, n \in 0 .. MaxImages :
        /\ (outcome # "success") => n = 0
        /\ genInFlight' = genInFlight \ {r}
        /\ IF outcome = "success"
           THEN /\ tracker' = TrackerStop(tracker)
                /\ hideTimers' = IF TrackerStopSchedules(tracker)
                                 THEN Append(hideTimers, r) ELSE hideTimers
                /\ addTimers' = Append(addTimers,
                       [req |-> r, images |-> ResponseImages(r, n)])
                /\ UNCHANGED <<alerts, consoleLog>>
           ELSE /\ consoleLog' = Append(consoleLog, "error: Generation error")
                /\ tracker' = TrackerCancel(tracker)
                /\ alerts' = Append(alerts,
                       "Failed to generate images: " \o GenerateError(outcome))
                /\ UNCHANGED <<hideTimers, addTimers>>
        /\ settled' = Append(settled,
                              [req |-> r, outcome |-> outcome, n |-> n])
        /\ LET fin == GenerateFinally(outcome)
           IN  /\ isGenerating' = fin.isGenerating
               /\ btnDisabled' = fin.disabled
               /\ btnText' = fin.text
        /\ UNCHANGED <<phase, sent, galleryVars, settingsVars, uploadVars,
                       uploadLog, preview, events, lastEvent>>

\* the callback of stop()'s setTimeout(..., 1000) (app.js 60-65)
HideTimerFires ==
    /\ hideTimers # << >>
    /\ hideTimers' = Tail(hideTimers)
    /\ tracker' = TrackerHide(tracker)
    /\ UNCHANGED <<phase, isGenerating, btnDisabled, btnText, addTimers, sent,
                   genInFlight, galleryVars, settingsVars, uploadVars, alerts, logVars,
                   preview, events, lastEvent>>

\* the callback of setTimeout(..., 1200) (app.js 362-364); it was set right
\* after stop()'s timer of the same response, so it fires after that one
AddTimerFires ==
    /\ addTimers # << >>
    /\ \A i \in 1 .. Len(hideTimers) : hideTimers[i] # Head(addTimers).req
    /\ addTimers' = Tail(addTimers)
    /\ generatedImages' = addGeneratedImages(generatedImages,
                              Head(addTimers).images, model, settings)
    /\ imageGrid' = GridInsertFirst(imageGrid, Head(addTimers).images)
    /\ UNCHANGED <<phase, isGenerating, btnDisabled, btnText, tracker,
                   hideTimers, sent, genInFlight, settingsVars, uploadVars,
                   alerts, logVars, preview, events, lastEvent>>

\* requestAnimationFrame(() => this.updateProgress()) (app.js 89-105)
AnimationFrame ==
    /\ tracker.frame
    /\ \E elapsedMs \in FrameElapsed :
           tracker' = TrackerUpdateProgress(tracker, elapsedMs)
    /\ UNCHANGED <<phase, isGenerating, btnDisabled, btnText, hideTimers,
                   addTimers, sent, genInFlight, galleryVars, settingsVars,
                   uploadVars, alerts, logVars, preview, events, lastEvent>>


(***************************************************************************)
(* Settings: the panel's onSettingsChange and the two inputs' listeners.   *)
(***************************************************************************)
ApplySettings(newSettings) ==
    /\ settings' = handleSettingsChange(settings, newSettings)
    /\ model' = ModelAfterChange(model, newSettings)

PanelNumberChange ==
    \E key \in PanelNumericKeys :
      \E text \in PanelTexts(key) :
        LET newSettings == PanelSet(panel, key, PanelParse(key, text))
        IN  /\ ~preview.open
            /\ UserEvent("panel", key)
            /\ panel' = newSettings
            /\ ApplySettings(newSettings)
            /\ UNCHANGED <<phase, genVars, galleryVars, uploadVars, alerts, logVars,
                           preview>>

PanelTextChange ==
    \E key \in PanelTextKeys :
      \E text \in PanelStrings(key) :
        LET newSettings == PanelSet(panel, key, Str(text))
        IN  /\ ~preview.open
            /\ UserEvent("panel", key)
            /\ panel' = newSettings
            /\ ApplySettings(newSettings)
            /\ UNCHANGED <<phase, genVars, galleryVars, uploadVars, alerts, logVars,
                           preview>>

\* app.js 216-220
BatchSizeChange ==
    \E text \in BatchTexts :
        /\ ~preview.open
        /\ UserEvent("batch", text)
        /\ ApplySettings([batchSize |-> BatchInputValue(text)])
        /\ UNCHANGED <<phase, genVars, galleryVars, uploadVars, alerts, logVars,
                       preview, panel>>

\* app.js 223-226
SeedChange ==
    \E text \in SeedTexts :
        /\ ~preview.open
        /\ UserEvent("seed", text)
        /\ ApplySettings([seed |-> SeedInputValue(text)])
        /\ UNCHANGED <<phase, genVars, galleryVars, uploadVars, alerts, logVars,
                       preview, panel>>

(***************************************************************************)
(* Upload (app.js 246-307).                                                *)
(***************************************************************************)
\* the four things clearSourceImage writes, as one record
UploadWidget ==
    [ sourceImage |-> sourceImage, previewHtml |-> previewHtml,
      dropHasImage |-> dropHasImage, fileInputValue |-> fileInputValue ]

\* a clear that leaves the file input as it is
ClearedKeepsFile(u) ==
    [u EXCEPT !.sourceImage = Null, !.previewHtml = Null,
              !.dropHasImage = FALSE]

\* clearSourceImage (app.js 302-307) as a function of what it writes
Cleared(u) ==
    [u EXCEPT !.sourceImage = Null, !.previewHtml = Null,
              !.dropHasImage = FALSE, !.fileInputValue = Null]

\* clearSourceImage (app.js 302-307)
clearSourceImage ==
    LET after == Cleared(UploadWidget)
    IN  /\ sourceImage' = after.sourceImage
        /\ previewHtml' = after.previewHtml
        /\ dropHasImage' = after.dropHasImage
        /\ fileInputValue' = after.fileInputValue

\* line 274 / the rejected fetch: the text of the Error that is caught
UploadError(outcome) ==
    CASE outcome = "rejected-with-text" -> "bad file"
      [] outcome = "rejected" -> "Upload failed"
      [] OTHER -> "Failed to fetch"

\* an upload that sends its request twice
StartUploadTwice(file) ==
    /\ loadingShown' = TRUE
    /\ uploads' = Append(Append(uploads, file), file)

\* handleImageUpload up to  await fetch(...)
StartUpload(file) ==
    /\ loadingShown' = TRUE
    /\ uploads' = Append(uploads, file)

\* a file dropped on the drop zone
FileDropped ==
    \E file \in Files :
        /\ ~preview.open
        /\ UserEvent("drop", file)
        /\ StartUpload(file)
        /\ UNCHANGED <<phase, genVars, galleryVars, settingsVars, alerts, logVars,
                       preview, sourceImage, reads, dropHasImage, previewHtml,
                       fileInputValue>>

\* a file picked in the file dialog: change fires when the value changes
FilePicked ==
    \E file \in Files :
        /\ ~preview.open
        /\ fileInputValue # Str(file)
        /\ UserEvent("pick", file)
        /\ fileInputValue' = Str(file)
        /\ StartUpload(file)
        /\ UNCHANGED <<phase, genVars, galleryVars, settingsVars, alerts, logVars,
                       preview, sourceImage, reads, dropHasImage, previewHtml>>

\* a success handler that keeps an attachment that is already there
UploadedSourceFirstWins(file) ==
    IF sourceImage # Null THEN sourceImage ELSE Str(file)

\* line 277: this.state.sourceImage = data.filename
UploadedSource(file) == Str(file)

\* handleImageUpload after the awaits, for the i-th pending upload
UploadSettles ==
    \E i \in 1 .. Len(uploads), outcome \in UploadOutcomes :
        LET file == uploads[i]
        IN  /\ uploads' = [k \in 1 .. (Len(uploads) - 1) |->
                              IF k < i THEN uploads[k] ELSE uploads[k + 1]]
            /\ IF outcome = "success"
               THEN /\ sourceImage' = UploadedSource(file)
                    /\ reads' = reads \cup {file}
                    /\ UNCHANGED <<previewHtml, dropHasImage, fileInputValue,
                                   alerts, consoleLog>>
               ELSE /\ consoleLog' = Append(consoleLog, "error: Upload error")
                    /\ clearSourceImage
                    /\ alerts' = Append(alerts,
                           "Failed to upload image: " \o UploadError(outcome))
                    /\ UNCHANGED reads
            /\ loadingShown' = FALSE
            /\ uploadLog' = Append(uploadLog,
                                   [file |-> file, outcome |-> outcome])
            /\ UNCHANGED <<phase, genVars, galleryVars, settingsVars, preview,
                           settled, events, lastEvent>>

\* reader.onload (app.js 290-298)
FileReaderLoads ==
    \E file \in reads :
        /\ reads' = reads \ {file}
        /\ previewHtml' = Str(file)
        /\ dropHasImage' = TRUE
        /\ UNCHANGED <<phase, genVars, galleryVars, settingsVars, alerts, logVars,
                       preview, events, lastEvent, sourceImage, uploads,
                       fileInputValue, loadingShown>>

\* the remove button rendered inside the source image preview
RemoveClicked ==
    /\ ~preview.open
    /\ previewHtml # Null
    /\ UserEvent("remove", << >>)
    /\ clearSourceImage
    /\ UNCHANGED <<phase, genVars, galleryVars, settingsVars, alerts, logVars, preview,
                   uploads, reads, loadingShown>>

(***************************************************************************)
(* Preview (app.js 409-434, ImagePreviewModal.js).  The modal covers the   *)
(* page, so while it is open the pointer reaches only its own buttons; the *)
(* keyboard still reaches the prompt input.                                *)
(***************************************************************************)
\* showImagePreview(index)
showImagePreview(index) ==
    IF HasImageAt(generatedImages, index)
    THEN preview' = [open |-> TRUE, index |-> index]
    ELSE preview' = preview

ThumbnailClicked ==
    \E i \in 1 .. Len(imageGrid) :
        LET index == FindIndexByUrl(generatedImages, imageGrid[i])
        IN  /\ ~preview.open
            /\ UserEvent("thumbnail", imageGrid[i])
            /\ IF index # 0 - 1 THEN showImagePreview(index)
                                ELSE preview' = preview
            /\ UNCHANGED <<phase, genVars, galleryVars, settingsVars,
                           uploadVars, alerts, logVars>>

\* the modal renders, and listens, only while images[currentIndex] exists
PreviewActive == preview.open /\ HasImageAt(generatedImages, preview.index)

\* ArrowLeft or the left button
PreviewLeft ==
    /\ PreviewActive
    /\ UserEvent("left", << >>)
    /\ preview' = [preview EXCEPT
                      !.index = NavLeft(preview.index, Len(generatedImages))]
    /\ UNCHANGED <<phase, genVars, galleryVars, settingsVars, uploadVars,
                   alerts, logVars>>

\* ArrowRight or the right button
PreviewRight ==
    /\ PreviewActive
    /\ UserEvent("right", << >>)
    /\ preview' = [preview EXCEPT
                      !.index = NavRight(preview.index, Len(generatedImages))]
    /\ UNCHANGED <<phase, genVars, galleryVars, settingsVars, uploadVars,
                   alerts, logVars>>

\* Escape or the close button: onClose unmounts the modal
PreviewClose ==
    /\ PreviewActive
    /\ UserEvent("close", << >>)
    /\ preview' = [preview EXCEPT !.open = FALSE]
    /\ UNCHANGED <<phase, genVars, galleryVars, settingsVars, uploadVars,
                   alerts, logVars>>

(***************************************************************************)
(* The specification.                                                      *)
(***************************************************************************)
Next ==
    \/ ModelInfoArrives
    \/ ModelInfoFails
    \/ GenerateClick
    \/ PromptEnter
    \/ GenerateSettles
    \/ HideTimerFires
    \/ AddTimerFires
    \/ AnimationFrame
    \/ PanelNumberChange
    \/ PanelTextChange
    \/ BatchSizeChange
    \/ SeedChange
    \/ FileDropped
    \/ FilePicked
    \/ UploadSettles
    \/ FileReaderLoads
    \/ RemoveClicked
    \/ ThumbnailClicked
    \/ PreviewLeft
    \/ PreviewRight
    \/ PreviewClose

Spec == Init /\ [][Next]_vars

\* a timer that is due fires: the callbacks of setTimeout (app.js 60-65 and
\* 362-364) need no user action and nothing cancels them
FairSpec == Spec /\ WF_vars(HideTimerFires) /\ WF_vars(AddTimerFires)


(***************************************************************************)
(* Properties.                                                             *)
(***************************************************************************)
\* a step that handles a user event of one of the given kinds
UserStep(names) == events' = events + 1 /\ lastEvent'.name \in names

\* a step in which a /generate request is answered
SettleStep == Len(settled') = Len(settled) + 1

\* a step in which the 1200 ms timer of a successful response fires
AddStep == Len(addTimers') = Len(addTimers) - 1

\* C1: at most one /generate request is outstanding, and a submit that
\* arrives while isGenerating is true issues no request, shows no alert and
\* changes nothing (settings, gallery, source image, progress tracker): it
\* only writes its debug line.
C1_SingleOutstandingRequest ==
    [][ /\ Cardinality(genInFlight') <= 1
        /\ (isGenerating /\ UserStep({"submit"})) =>
              /\ UNCHANGED <<genVars, galleryVars, settingsVars, uploadVars,
                             alerts, settled, uploadLog, preview, phase>>
              /\ consoleLog' =
                     Append(consoleLog, "debug: Generation in progress...")
      ]_vars

\* a submit arrived while the only request was still outstanding
C1_Witness ==
    /\ lastEvent.name = "submit"
    /\ events = 2
    /\ consoleLog = <<"debug: Generation in progress...">>
    /\ genInFlight = {1}
    /\ Len(sent) = 1
    /\ isGenerating

\* C2: a submit whose prompt is empty or only white space issues no
\* /generate request; it shows the validation alert (when no generation is
\* in progress) and leaves isGenerating, the button, the progress tracker and
\* the gallery as they were.
C2_EmptyPromptSendsNothing ==
    [][ (UserStep({"submit"}) /\ Trim(lastEvent'.arg) = << >>) =>
            /\ UNCHANGED <<genVars, galleryVars>>
            /\ alerts' = IF isGenerating THEN alerts
                         ELSE Append(alerts, "Please enter a prompt!")
      ]_vars

\* a white-space prompt was submitted and the validation alert shown
C2_Witness ==
    /\ lastEvent.name = "submit"
    /\ lastEvent.arg = <<" ">>
    /\ alerts # << >>
    /\ alerts[Len(alerts)] = "Please enter a prompt!"
    /\ sent = << >>

\* C3: when the images of a successful response are added, the gallery
\* sequence gets exactly those n entries, in the response's order, before
\* every entry it held.
C3_BatchPlacedFirst ==
    [][ AddStep =>
          LET images == Head(addTimers).images
              n == Len(images)
          IN  /\ Len(generatedImages') = Len(generatedImages) + n
              /\ \A k \in 1 .. n : generatedImages'[k].url = images[k].url
              /\ \A j \in 1 .. Len(generatedImages) :
                     generatedImages'[n + j] = generatedImages[j]
      ]_vars

\* C4: the button is disabled whenever isGenerating is true, and once every
\* accepted submit has been answered (whatever the outcome) isGenerating is
\* false and the button is enabled and labelled 'Generate'.
C4_ReturnsToIdle ==
    /\ isGenerating => btnDisabled
    /\ genInFlight = {} =>
          (~isGenerating /\ ~btnDisabled /\ btnText = "Generate")

\* a request failed and the controller is idle again
C4_Witness ==
    /\ settled # << >>
    /\ settled[Len(settled)].outcome = "threw"
    /\ genInFlight = {}
    /\ ~isGenerating
    /\ btnText = "Generate"

\* the requests that were answered with a failure
FailedRequests(log) ==
    {log[i].req : i \in {j \in 1 .. Len(log) : log[j].outcome # "success"}}

\* C5: when a /generate call fails the tracker is cancelled (not running,
\* container hidden, display reset) and the gallery is left as it was; no
\* image of a failed call is in the gallery or waits to be added.
C5_FailureCancelsProgress ==
    [][ /\ (SettleStep /\ settled'[Len(settled')].outcome # "success") =>
              /\ ~tracker'.isRunning
              /\ ~tracker'.shown
              /\ tracker'.display = "reset"
              /\ UNCHANGED <<generatedImages, imageGrid, addTimers>>
        /\ \A r \in FailedRequests(settled') :
              /\ \A i \in 1 .. Len(generatedImages') :
                     generatedImages'[i].url.req # r
              /\ \A i \in 1 .. Len(addTimers') : addTimers'[i].req # r
      ]_vars

\* a call failed while the hide timer of an earlier success was pending
C5_Witness ==
    /\ Len(settled) = 2
    /\ settled[1].outcome = "success"
    /\ settled[2].outcome # "success"
    /\ hideTimers # << >>
    /\ ~tracker.isRunning
    /\ ~tracker.shown

\* C6: after an upload has failed (and until another one succeeds)
\* sourceImage is null and the drop zone has no 'has-image' class.
C6_FailedUploadLeavesEmpty ==
    (uploadLog # << >> /\ uploadLog[Len(uploadLog)].outcome # "success") =>
        (sourceImage = Null /\ ~dropHasImage)

\* an integer in [1, 4]
BatchInRange(x) == IsInteger(x) /\ x.v >= 1 /\ x.v <= 4

\* C7: settings.batchSize and the batch_size of every request sent is an
\* integer in [1, 4].
C7_BatchSizeClamped ==
    /\ BatchInRange(settings.batchSize)
    /\ \A i \in 1 .. Len(sent) : BatchInRange(sent[i].batch_size)

NumericSettings ==
    {"width", "height", "num_inference_steps", "guidanceScale", "batchSize"}

\* C8: after a settings update the numeric settings are numbers, and an
\* input that failed to parse has left its field at DEFAULT_SETTINGS' value.
C8_ParseFailureGivesDefault ==
    [][ UserStep({"panel", "batch", "seed"}) =>
          /\ \A k \in NumericSettings : settings'[k].t = "num"
          /\ (/\ lastEvent'.name = "panel"
              /\ lastEvent'.arg \in PanelNumericKeys
              /\ panel'[lastEvent'.arg].t = "nan") =>
                 settings'[lastEvent'.arg] = DEFAULT_SETTINGS[lastEvent'.arg]
          /\ (/\ lastEvent'.name = "batch"
              /\ ParseIntText(lastEvent'.arg).t = "nan") =>
                 settings'.batchSize = DEFAULT_SETTINGS.batchSize
      ]_vars

RECURSIVE RepeatLeft(_, _, _)
RepeatLeft(i, n, k) ==
    IF k = 0 THEN i ELSE RepeatLeft(NavLeft(i, n), n, k - 1)

RECURSIVE RepeatRight(_, _, _)
RepeatRight(i, n, k) ==
    IF k = 0 THEN i ELSE RepeatRight(NavRight(i, n), n, k - 1)

SnapshotMatches(image, body) ==
    /\ body.model = Json(image.model)
    /\ body.batch_size = Json(image.settings.batchSize)
    /\ body.seed = Json(OrElse(image.settings.seed, Undefined))
    /\ body.guidance_scale = Json(image.settings.guidanceScale)
    /\ body.num_inference_steps = Json(image.settings.num_inference_steps)
    /\ body.negative_prompt = Json(image.settings.negativePrompt)
    /\ body.height = Json(image.settings.height)
    /\ body.width = Json(image.settings.width)

\* C10: every generated image in the gallery carries the model name and
\* the settings that its /generate request was sent with.
C10_SnapshotIsRequestSettings ==
    \A i \in 1 .. Len(generatedImages) :
        LET image == generatedImages[i]
        IN  image.url.req # 0 => SnapshotMatches(image, sent[image.url.req])

\* a submit that is accepted: it issues a /generate request
SubmitAccepted == PromptEnter /\ Len(sent') = Len(sent) + 1

\* C11: once startup is over, failed or not, a submit with a non-empty
\* prompt is accepted whenever no generation is in progress, and a dropped
\* file starts an upload (as long as the user has an event left to make).
C11_UsableAfterFailure ==
    (phase # "booting" /\ events < MaxUserEvents) =>
        /\ ~isGenerating => ENABLED SubmitAccepted
        /\ ~preview.open => ENABLED FileDropped

\* a submit that passes both checks of handleGenerate
AcceptedSubmit ==
    UserStep({"submit"}) /\ ~isGenerating /\ Trim(lastEvent'.arg) # << >>

\* C12: a step issues one /generate request when it is an accepted submit
\* and none otherwise, and one /upload request when it is an attach (drop or
\* pick) and none otherwise; so no response, failure or timer sends a
\* request, and the requests sent never outnumber the user's actions.
C12_NoRetries ==
    [][ /\ Len(sent') = Len(sent) + (IF AcceptedSubmit THEN 1 ELSE 0)
        /\ Len(uploads') + Len(uploadLog') =
              Len(uploads) + Len(uploadLog)
                  + (IF UserStep({"drop", "pick"}) THEN 1 ELSE 0)
        /\ Len(sent') + Len(uploads') + Len(uploadLog') <= events'
      ]_vars

\* a generation and an upload have both failed and nothing was sent again
C12_Witness ==
    /\ Len(sent) = 1
    /\ Len(settled) = 1
    /\ settled[1].outcome = "threw"
    /\ Len(uploadLog) = 1
    /\ uploadLog[1].outcome = "rejected"
    /\ uploads = << >>
    /\ genInFlight = {}

\* a is an initial segment of b
IsPrefix(a, b) == Len(a) <= Len(b) /\ \A i \in 1 .. Len(a) : b[i] = a[i]

\* C13: after the startup load every step keeps the gallery sequence as an
\* initial segment of the new one (no entry removed, replaced or moved), and
\* until the startup load has run nothing was submitted and the gallery is
\* empty, so the load discards no generated image.
C13_GalleryOnlyGrows ==
    [][ /\ phase = "ready" => IsPrefix(generatedImages, generatedImages')
        /\ phase = "booting" =>
              (sent = << >> /\ addTimers = << >> /\ generatedImages = << >>)
      ]_vars

\* a generated image was added behind the two saved ones
C13_Witness ==
    /\ Len(generatedImages) = MaxSaved + 1
    /\ generatedImages[1].url.req = 0
    /\ generatedImages[MaxSaved + 1].url.req = 1

\* C14: when a /generate call that carried an attachment succeeds, and the
\* upload that produced the attachment is the only one ever started (so no
\* new upload has succeeded), sourceImage is null after the response.
C14_AttachmentConsumed ==
    [][ (/\ SettleStep
         /\ settled'[Len(settled')].outcome = "success"
         /\ sent[settled'[Len(settled')].req].image # Null
         /\ Len(uploads) + Len(uploadLog) = 1) =>
            sourceImage' = Null
      ]_vars

\* the upload widget with nothing attached
EmptyWidget ==
    [ sourceImage |-> Null, previewHtml |-> Null,
      dropHasImage |-> FALSE, fileInputValue |-> Null ]

\* a step in which clearSourceImage runs: the remove button, or an upload
\* that is answered with a failure
ClearStep ==
    \/ UserStep({"remove"})
    \/ /\ Len(uploadLog') = Len(uploadLog) + 1
       /\ uploadLog'[Len(uploadLog')].outcome # "success"

\* C15: whenever clearSourceImage runs it leaves sourceImage null, the
\* preview empty, 'has-image' absent and the file input reset; run on the
\* empty widget it changes none of them, and clearing the result once more
\* gives the same result.
C15_ClearIsIdempotent ==
    [][ ClearStep =>
          /\ UploadWidget' = EmptyWidget
          /\ UploadWidget = EmptyWidget => UploadWidget' = UploadWidget
          /\ Cleared(Cleared(UploadWidget)) = Cleared(UploadWidget)
          /\ Cleared(UploadWidget') = UploadWidget'
      ]_vars

\* the remove button cleared an attachment whose preview was shown
C15_Witness ==
    /\ lastEvent.name = "remove"
    /\ uploadLog # << >>
    /\ uploadLog[1].outcome = "success"
    /\ reads = {}
    /\ UploadWidget = EmptyWidget

\* a step in which an /upload request is answered
UploadSettleStep == Len(uploadLog') = Len(uploadLog) + 1

\* the text the claim expects after the alert's prefix: the server's error
\* text when the response has one, the generic message otherwise
ExpectedErrorText(outcome, serverText, generic) ==
    IF outcome = "rejected-with-text" THEN serverText ELSE generic

\* C16: a failed generation and a failed upload each show exactly one
\* alert, with the server's error text when the response has one and
\* 'Generation failed' / 'Upload failed' otherwise; a success shows none.
C16_OneAlertPerFailure ==
    [][ /\ SettleStep =>
              LET outcome == settled'[Len(settled')].outcome
              IN  IF outcome = "success" THEN alerts' = alerts
                  ELSE alerts' = Append(alerts,
                           "Failed to generate images: " \o
                           ExpectedErrorText(outcome, "out of memory",
                                             "Generation failed"))
        /\ UploadSettleStep =>
              LET outcome == uploadLog'[Len(uploadLog')].outcome
              IN  IF outcome = "success" THEN alerts' = alerts
                  ELSE alerts' = Append(alerts,
                           "Failed to upload image: " \o
                           ExpectedErrorText(outcome, "bad file",
                                             "Upload failed"))
      ]_vars

\* an integer, or the empty string of DEFAULT_SETTINGS
IntegerOrEmpty(x) == IsInteger(x) \/ x = Str("")

\* C17: the stored seed is always an integer or the empty default (never
\* NaN); a seed-input change stores the integer entered, or the empty
\* default when the text is empty or does not parse; and the seed field of a
\* request is the stored seed when that is truthy and absent otherwise.
C17_SeedOmittedWhenFalsy ==
    [][ /\ IntegerOrEmpty(settings'.seed)
        /\ UserStep({"seed"}) =>
              settings'.seed =
                  (IF Truthy(ParseIntText(lastEvent'.arg))
                   THEN ParseIntText(lastEvent'.arg) ELSE Str(""))
        /\ AcceptedSubmit =>
              sent'[Len(sent')].seed =
                  (IF Truthy(settings.seed) THEN settings.seed ELSE Undefined)
      ]_vars

\* C18: while a /generate request is outstanding the progress container is
\* visible.
C18_ProgressShownWhileGenerating ==
    genInFlight # {} => tracker.shown

\* C19: while the tracker is running the percentage shown is a number from
\* 0 to 99; 100 is shown only after stop(); and start() on a running
\* tracker changes nothing.
C19_PercentCappedAt99 ==
    /\ tracker.isRunning =>
          /\ tracker.percent.t = "num"
          /\ tracker.percent.v >= 0
          /\ tracker.percent.v <= 99
          /\ \A e \in StartElapsed :
                 TrackerStart(tracker, Num(1), e) = tracker
    /\ tracker.percent = Num(100) => tracker.display = "complete"

\* C20: an attach is taken whether or not an upload is in flight (its
\* request joins the pending ones), and each response decides sourceImage
\* by itself: a success sets it to that response's file and a failure sets
\* it to null, whichever upload was started first.
C20_LastResponseWins ==
    [][ /\ UserStep({"drop", "pick"}) =>
              uploads' = Append(uploads, lastEvent'.arg)
        /\ UploadSettleStep =>
              LET answer == uploadLog'[Len(uploadLog')]
              IN  sourceImage' = IF answer.outcome = "success"
                                 THEN Str(answer.file) ELSE Null
      ]_vars

\* cat.png was attached first and dog.png while it was in flight; dog.png
\* was answered first, so the attachment is the one started first
C20_Witness ==
    /\ events = 2
    /\ lastEvent.name \in {"drop", "pick"}
    /\ lastEvent.arg = "dog.png"
    /\ uploadLog = << [file |-> "dog.png", outcome |-> "success"],
                      [file |-> "cat.png", outcome |-> "success"] >>
    /\ sourceImage = Str("cat.png")

\* request r was answered with success
Succeeded(r) ==
    \E i \in 1 .. Len(settled) :
        settled[i].req = r /\ settled[i].outcome = "success"

\* the position of r's answer among the answers
Arrival(r) == CHOOSE i \in 1 .. Len(settled) : settled[i].req = r

\* the positions of the gallery that hold image k of request r
PositionsOf(r, k) ==
    {i \in 1 .. Len(generatedImages) :
        generatedImages[i].url = [req |-> r, k |-> k]}

\* the timer of r's answer has fired and each of its images is stored once
AddedOnce(r) ==
    /\ \A i \in 1 .. Len(addTimers) : addTimers[i].req # r
    /\ \A k \in 1 .. MaxImages :
           Cardinality(PositionsOf(r, k)) =
               (IF k <= settled[Arrival(r)].n THEN 1 ELSE 0)

\* generated images stand in the order of their answers, and within one
\* answer in the answer's order; none is stored twice
InArrivalOrder ==
    \A i, j \in 1 .. Len(generatedImages) :
        LET a == generatedImages[i].url
            b == generatedImages[j].url
        IN  (i < j /\ a.req # 0 /\ b.req # 0) =>
                \/ Arrival(a.req) < Arrival(b.req)
                \/ a.req = b.req /\ a.k < b.k

\* C21: once a /generate request has been answered with success its images
\* end up in the gallery, each exactly once, with the timers alone at work;
\* and the generated images always stand in the order their answers came.
C21_EveryBatchIsAdded ==
    /\ []InArrivalOrder
    /\ \A r \in 1 .. MaxUserEvents :
           Succeeded(r) ~> (Succeeded(r) /\ AddedOnce(r))

\* two generations succeeded one after the other and both batches are in
\* the gallery, the first answer's images before the second's
C21_Witness ==
    /\ Len(settled) = 2
    /\ settled[1].outcome = "success" /\ settled[1].n >= 1
    /\ settled[2].outcome = "success" /\ settled[2].n >= 1
    /\ addTimers = << >>
    /\ AddedOnce(settled[1].req) /\ AddedOnce(settled[2].req)
    /\ \E i, j \in 1 .. Len(generatedImages) :
           /\ i < j
           /\ generatedImages[i].url.req = settled[1].req
           /\ generatedImages[j].url.req = settled[2].req

\* C22: the i-th thumbnail of the grid shows the i-th entry of the gallery
\* sequence.
C22_GridFollowsGallery ==
    /\ Len(imageGrid) = Len(generatedImages)
    /\ \A i \in 1 .. Len(imageGrid) :
           imageGrid[i] = generatedImages[i].url

\* C23: a thumbnail click opens the preview at the first gallery position whose
\* url equals the thumbnail's url; when no entry has that url the preview and
\* the rest of the state are left as they were.
C23_ThumbnailOpensFirstMatch ==
    [][
        UserStep({"thumbnail"}) =>
            LET url == lastEvent'.arg
                matches == {i \in 1 .. Len(generatedImages) :
                               generatedImages[i].url = url}
            IN  /\ matches # {} =>
                       /\ preview'.open
                       /\ preview'.index + 1 \in matches
                       /\ \A i \in matches : preview'.index + 1 <= i
                /\ matches = {} => preview' = preview
                /\ UNCHANGED <<genVars, galleryVars, settingsVars, uploadVars>>
    ]_vars

C23_Witness ==
    /\ lastEvent.name = "thumbnail"
    /\ preview.open
    /\ preview.index = 1
    /\ Len(generatedImages) >= 2
    /\ generatedImages[2].url = lastEvent.arg

\* the fields of s other than those in keys are what they were in t
SameExcept(s, t, keys) ==
    /\ DOMAIN s = DOMAIN t
    /\ \A k \in DOMAIN s \ keys : s[k] = t[k]

\* C24: a settings update changes only the fields it provides: a panel change
\* leaves batchSize and seed alone, a batch change alters only batchSize, a
\* seed change alters only seed, and none of them touches isGenerating,
\* sourceImage or the gallery.
C24_UpdateChangesOnlyItsFields ==
    [][
        /\ UserStep({"panel"}) =>
               /\ DOMAIN settings' = DOMAIN settings \cup DOMAIN panel'
               /\ settings'.batchSize = settings.batchSize
               /\ settings'.seed = settings.seed
        /\ UserStep({"batch"}) =>
               /\ SameExcept(settings', settings, {"batchSize"})
               /\ model' = model
        /\ UserStep({"seed"}) =>
               /\ SameExcept(settings', settings, {"seed"})
               /\ model' = model
        /\ UserStep({"panel", "batch", "seed"}) =>
               UNCHANGED <<isGenerating, sourceImage, generatedImages,
                           imageGrid>>
    ]_vars

C24_Witness ==
    /\ lastEvent.name = "batch"
    /\ settings.batchSize = Num(3)
    /\ settings.num_inference_steps = Num(20)
    /\ settings.seed = Num(42)

\* C25: the drop zone carries 'has-image', and the source preview is
\* rendered, only while sourceImage is non-null.
C25_PreviewOnlyWithSource ==
    (dropHasImage \/ previewHtml # Null) => sourceImage # Null

\* C26: the loading indicator is visible exactly while an upload is in flight.
C26_LoadingWhileUploading ==
    loadingShown <=> uploads # << >>

\* C27: while the preview is open its index is a position of the image list,
\* after any left, right or button press and also when the list grows under
\* the open preview (so the modal's render-nothing guard is not reached);
\* closing leaves the index as it was.
C27_IndexStaysInRange ==
    [][
        /\ preview'.open =>
               /\ preview'.index >= 0
               /\ preview'.index <= Len(generatedImages') - 1
        /\ (preview.open /\ AddStep) =>
               /\ preview'.open
               /\ preview'.index = preview.index
        /\ UserStep({"close"}) =>
               /\ ~preview'.open
               /\ preview'.index = preview.index
    ]_vars

\* a right press at the last of two images wrapped to the first
C27_Witness ==
    /\ lastEvent.name = "right"
    /\ preview.open
    /\ preview.index = 0
    /\ Len(generatedImages) = 2

\* C28: between tasks the tracker is running exactly when a generation is in
\* progress; an accepted submit finds the tracker stopped, so start() acts,
\* and a completing request finds it running, so stop() or cancel() acts.
C28_TrackerFollowsGeneration ==
    [][
        /\ tracker.isRunning = isGenerating
        /\ tracker'.isRunning = isGenerating'
        /\ AcceptedSubmit => (~tracker.isRunning /\ tracker'.isRunning)
        /\ SettleStep => (tracker.isRunning /\ ~tracker'.isRunning)
    ]_vars

\* a second generation running while the first one's hide timer is pending
C28_Witness ==
    /\ isGenerating
    /\ tracker.isRunning
    /\ Len(sent) = 2
    /\ hideTimers # << >>

\* C29: once startup has succeeded, state.model equals state.settings.model
\* after the /model-info response and after every settings update, and each
\* /generate request carries that value as its model field.
C29_ModelNeverDiverges ==
    [][
        /\ phase' = "ready" =>
               /\ "model" \in DOMAIN settings'
               /\ settings'.model = model'
        /\ AcceptedSubmit =>
               /\ sent'[Len(sent')].model = settings.model
               /\ sent'[Len(sent')].model = model
    ]_vars

\* a request sent after the panel changed the model
C29_Witness ==
    /\ Len(sent) = 1
    /\ sent[1].model = Str("sdxl")
    /\ model = Str("sdxl")
    /\ settings.model = Str("sdxl")

====
